---- MODULE Spec2Model ----
(***************************************************************************)
(* GrblEmulator (src/grbl_emu.py): the serial reader thread, the motion    *)
(* executor thread and the homing threads, which share the controller's    *)
(* fields without any lock.  Each thread is a sequence of atomic steps cut *)
(* at the places where it reads or writes shared fields; the position of   *)
(* each thread is part of the state.                                       *)
(*                                                                         *)
(* Lengths are integers in units of 0.001 mm, so the code's tolerance      *)
(* 0.001 is one unit, the homing window 0.1 is 100 units and the homing    *)
(* back-off 2.0 is 2000 units.                                             *)
(***************************************************************************)
EXTENDS Integers, Sequences, FiniteSets, TLC

VARIABLES
    state,          \* self.state
    mpos,           \* self.mpos
    target_mpos,    \* the value of the list self.target_mpos refers to
    target_is_head, \* self.target_mpos is the same list object as motion_queue[0]
    motion_queue,   \* self.motion_queue
    feed_rate,      \* self.feed_rate
    homing,         \* self.homing
    is_relative,    \* self.is_relative
    motion_mode,    \* self.motion_mode
    wco,            \* self.wco
    buffer,         \* _serial_loop's local buffer, as the pieces received
    rpc,            \* reader thread: where it is inside _handle_command
    mpc,            \* motion thread: where it is inside one loop iteration
    m_next,         \* motion thread local next_pos (after clamping)
    m_hit,          \* motion thread local hit_limit
    m_full,         \* motion thread local: step >= dist
    hpc,            \* homing threads: where each run_homing is
    resp,           \* the ok / error:N frames sent for the line handled last
    handled,        \* some line has been handed to _handle_command
    alarms,         \* ALARM:1 frames sent so far
    menu,           \* the inputs the sender uses in this run
    inputs,         \* inputs received so far
    last            \* what the last input was (history, read by the properties)

vars == <<state, mpos, target_mpos, target_is_head, motion_queue, feed_rate,
          homing, is_relative, motion_mode, wco, buffer, rpc, mpc, m_next,
          m_hit, m_full, hpc, resp, handled, alarms, menu, inputs, last>>

ctrl == <<state, mpos, target_mpos, target_is_head, motion_queue, feed_rate,
          homing, is_relative, motion_mode, wco>>

----------------------------------------------------------------------------
\* Bounds of the model.

\* inputs (real-time bytes, line pieces, terminated lines) per run
MaxInputs == 3
\* run_homing threads alive at the same time
MaxHomers == 1
\* a partial executor step leaves 1/StepDiv of the distance to go
StepDiv == 64
\* the largest arc radius, in thousandths of a millimetre
MaxRadius == 20000

----------------------------------------------------------------------------
\* Numbers.

MM(n) == n * 1000

Abs(x) == IF x < 0 THEN -x ELSE x

\* int(x) of Python: truncation towards zero, here of d / k
TruncDiv(d, k) == IF d >= 0 THEN d \div k ELSE -((-d) \div k)

Max2(a, b) == IF a >= b THEN a ELSE b
Min2(a, b) == IF a <= b THEN a ELSE b

Axes == 1..3

\* settings["$130"], ["$131"], ["$132"]
MaxTravel == <<MM(300), MM(180), MM(45)>>

\* self.home_pos, set from the settings by _start_homing
home_pos == MaxTravel

Zero3 == <<0, 0, 0>>

----------------------------------------------------------------------------
\* Command lines.  A piece of line text is its leading system prefix, whether
\* more text follows the prefix directly, and the items after it: words
\* (letter, number) and text that is no word.

Tok(k, mm) == [k |-> k, v |-> MM(mm), inf |-> FALSE]
\* a word whose digits are so many that float() returns inf
InfTok(k) == [k |-> k, v |-> 0, inf |-> TRUE]
\* text the tokenising expression does not match
Junk == [k |-> "#", v |-> 0, inf |-> FALSE]

Piece(pre, extra, items) == [pre |-> pre, extra |-> extra, items |-> items]

Catalogue ==
    [ X500    |-> Piece("", FALSE, <<Tok("G", 90), Tok("G", 1), Tok("X", 500), Tok("F", 2000)>>),
      XYZ     |-> Piece("", FALSE, <<Tok("G", 90), Tok("X", 10), Tok("Y", 20), Tok("Z", 5)>>),
      X20     |-> Piece("", FALSE, <<Tok("G", 1), Tok("X", 20)>>),
      G92X5   |-> Piece("", FALSE, <<Tok("G", 92), Tok("X", 5)>>),
      GINF    |-> Piece("", FALSE, <<InfTok("G"), Tok("X", 1)>>),
      ZNEG    |-> Piece("", FALSE, <<Tok("G", 0), Tok("Z", -5)>>),
      REL     |-> Piece("", FALSE, <<Tok("G", 91), Tok("X", 2)>>),
      G10YZ   |-> Piece("", FALSE, <<Tok("G", 10), Tok("L", 20), Tok("P", 1), Tok("Y", 3), Tok("Z", 1)>>),
      BAD     |-> Piece("", FALSE, <<Tok("G", 1), Tok("X", 5), Junk>>),
      JOG     |-> Piece("$J=", FALSE, <<Tok("G", 91), Tok("X", 2), Tok("F", 500)>>),
      JOGABS  |-> Piece("$J=", FALSE, <<Tok("G", 90), Tok("X", 3), Tok("F", 500)>>),
      ARC     |-> Piece("", FALSE, <<Tok("G", 2), Tok("X", 4), Tok("Y", 0), Tok("Z", 3), Tok("I", 2), Tok("J", 0)>>),
      ARC0    |-> Piece("", FALSE, <<Tok("G", 3), Tok("X", 3), Tok("Y", 1)>>),
      M0      |-> Piece("", FALSE, <<Tok("M", 0)>>),
      M0X5    |-> Piece("", FALSE, <<Tok("G", 1), Tok("X", 5), Tok("M", 0)>>),
      BANG    |-> Piece("!", FALSE, <<>>),
      DX      |-> Piece("$X", FALSE, <<>>),
      DH      |-> Piece("$H", FALSE, <<>>),
      DHA     |-> Piece("$HA", FALSE, <<>>),
      DD      |-> Piece("$$", FALSE, <<>>),
      DI      |-> Piece("$I", FALSE, <<>>),
      DG      |-> Piece("$G", FALSE, <<>>),
      DI1     |-> Piece("$I", TRUE, <<>>),
      DSET    |-> Piece("$", TRUE, <<>>) ]

\* '!' is one byte of line content; the other pieces are whole lines
CharNames == {"BANG"}
LineNames == DOMAIN Catalogue \ CharNames

----------------------------------------------------------------------------
\* The tokeniser: re.findall keeps the words of the text, in order, and skips
\* everything else.

IsWord(item) == item.k # "#"

RECURSIVE Tokens(_)
Tokens(cmd) ==
    IF cmd = <<>> THEN <<>>
    ELSE SelectSeq(Head(cmd).items, IsWord) \o Tokens(Tail(cmd))

\* cmd == p: the line is the prefix p and nothing else
Exactly(cmd, p) ==
    /\ Len(cmd) = 1
    /\ cmd[1].pre = p
    /\ ~cmd[1].extra
    /\ cmd[1].items = <<>>

\* cmd.startswith(p), for the prefixes the code tests
StartsWith(cmd, p) ==
    CASE p = "$"  -> cmd[1].pre \in {"$", "$$", "$H", "$HA", "$J=", "$I", "$X", "$G"}
      [] p = "$H" -> cmd[1].pre \in {"$H", "$HA"}
      [] OTHER    -> cmd[1].pre = p

\* the test of _handle_command that lets a line through in Alarm
AlarmAllowed(cmd) ==
    \/ Exactly(cmd, "$X")
    \/ Exactly(cmd, "$H")
    \/ Exactly(cmd, "$HA")
    \/ Exactly(cmd, "$$")
    \/ StartsWith(cmd, "$I")
    \/ StartsWith(cmd, "$G")

\* the branch of _handle_command a line takes
CommandClass(cmd) ==
    IF Exactly(cmd, "$$") THEN "settings"
    ELSE IF StartsWith(cmd, "$") THEN
        IF Exactly(cmd, "$H") \/ Exactly(cmd, "$HA") THEN "home"
        ELSE IF StartsWith(cmd, "$J=") THEN "jog"
        ELSE IF Exactly(cmd, "$I") THEN "info"
        ELSE IF Exactly(cmd, "$X") THEN "unlock"
        ELSE IF Exactly(cmd, "$G") THEN "modal"
        ELSE "setting"
    ELSE "gcode"

----------------------------------------------------------------------------
\* _parse_gcode, loop by loop.

\* some G word is 10 or 92
IsOffsetBlock(toks) ==
    \E i \in 1..Len(toks) :
        toks[i].k = "G" /\ ~toks[i].inf /\ toks[i].v \in {MM(10), MM(92)}

AxisOf(k) == CASE k = "X" -> 1 [] k = "Y" -> 2 [] k = "Z" -> 3 [] OTHER -> 0

\* the G10/G92 loop, were it to store the value itself
RECURSIVE OffsetLoopNoMpos(_, _, _)
OffsetLoopNoMpos(toks, i, w) ==
    IF i > Len(toks) THEN w
    ELSE LET a == AxisOf(toks[i].k)
         IN  OffsetLoopNoMpos(toks, i + 1,
                 IF a = 0 THEN w ELSE [w EXCEPT ![a] = toks[i].v])

\* the G10/G92 loop: wco[axis] = mpos[axis] - value for each axis word
RECURSIVE OffsetLoop(_, _, _)
OffsetLoop(toks, i, w) ==
    IF i > Len(toks) THEN w
    ELSE LET a == AxisOf(toks[i].k)
         IN  OffsetLoop(toks, i + 1,
                 IF a = 0 THEN w ELSE [w EXCEPT ![a] = mpos[a] - toks[i].v])

\* the motion-mode loop: val = int(float(v)) raises on inf; 0..3 are latched
RECURSIVE ModeLoop(_, _, _)
ModeLoop(toks, i, mode) ==
    IF i > Len(toks) THEN [mode |-> mode, raise |-> FALSE]
    ELSE IF toks[i].k # "G" THEN ModeLoop(toks, i + 1, mode)
    ELSE IF toks[i].inf THEN [mode |-> mode, raise |-> TRUE]
    ELSE LET val == TruncDiv(toks[i].v, 1000)
         IN  ModeLoop(toks, i + 1, IF val \in 0..3 THEN val ELSE mode)

\* the distance-mode loop: the last G90 / G91 of the block
RECURSIVE RelLoop(_, _, _)
RelLoop(toks, i, rel) ==
    IF i > Len(toks) THEN rel
    ELSE IF toks[i].k = "G" /\ ~toks[i].inf /\ toks[i].v = MM(90)
         THEN RelLoop(toks, i + 1, FALSE)
    ELSE IF toks[i].k = "G" /\ ~toks[i].inf /\ toks[i].v = MM(91)
         THEN RelLoop(toks, i + 1, TRUE)
    ELSE RelLoop(toks, i + 1, rel)

\* the parameter loop: F, X, Y, Z, I, J, K and M words in order
RECURSIVE ParamLoop(_, _, _, _)
ParamLoop(toks, i, rel, acc) ==
    IF i > Len(toks) THEN acc
    ELSE LET k == toks[i].k
             val == toks[i].v
             a == AxisOf(k)
         IN  ParamLoop(toks, i + 1, rel,
                 IF k = "F" THEN [acc EXCEPT !.feed = Max2(val, 100)]
                 ELSE IF a # 0 THEN
                     [acc EXCEPT !.target[a] =
                                     IF rel THEN target_mpos[a] + val
                                            ELSE val + wco[a],
                                 !.is_move = TRUE]
                 ELSE IF k = "I" THEN [acc EXCEPT !.I = val]
                 ELSE IF k = "J" THEN [acc EXCEPT !.J = val]
                 ELSE IF k = "M" /\ TruncDiv(val, 1000) = 0
                      THEN [acc EXCEPT !.hold = TRUE]
                 ELSE acc)


----------------------------------------------------------------------------
\* Arcs.  Angles are in thousandths of a degree, sines in millionths.

\* math.sin of 0, 1, ..., 90 degrees
SinTab ==
    <<
       0, 17452, 34899, 52336, 69756, 87156, 104528,
       121869, 139173, 156434, 173648, 190809, 207912, 224951,
       241922, 258819, 275637, 292372, 309017, 325568, 342020,
       358368, 374607, 390731, 406737, 422618, 438371, 453990,
       469472, 484810, 500000, 515038, 529919, 544639, 559193,
       573576, 587785, 601815, 615661, 629320, 642788, 656059,
       669131, 681998, 694658, 707107, 719340, 731354, 743145,
       754710, 766044, 777146, 788011, 798636, 809017, 819152,
       829038, 838671, 848048, 857167, 866025, 874620, 882948,
       891007, 898794, 906308, 913545, 920505, 927184, 933580,
       939693, 945519, 951057, 956305, 961262, 965926, 970296,
       974370, 978148, 981627, 984808, 987688, 990268, 992546,
       994522, 996195, 997564, 998630, 999391, 999848, 1000000 >>

HalfTurn == 180000
Turn == 2 * HalfTurn

\* sine of an angle of the first quadrant, linear between whole degrees
SinQ(a) ==
    LET d == a \div 1000
        f == a % 1000
    IN  IF f = 0 THEN SinTab[d + 1]
        ELSE SinTab[d + 1] + ((SinTab[d + 2] - SinTab[d + 1]) * f) \div 1000

\* math.sin and math.cos
Sin(a) ==
    LET b == a % Turn
    IN  IF b <= HalfTurn \div 2 THEN SinQ(b)
        ELSE IF b <= HalfTurn THEN SinQ(HalfTurn - b)
        ELSE IF b <= HalfTurn + HalfTurn \div 2 THEN 0 - SinQ(b - HalfTurn)
        ELSE 0 - SinQ(Turn - b)

Cos(a) == Sin(a + HalfTurn \div 2)

\* r * s for a length r >= 0 and a sine s, in thousandths of the length unit
ScaleFine(r, s) ==
    LET m == Abs(s)
        q == r * (m \div 1000) + (r * (m % 1000)) \div 1000
    IN  IF s < 0 THEN 0 - q ELSE q

\* r * s to the nearest length unit
Scale(r, s) ==
    LET q == ScaleFine(r, Abs(s))
        v == (q + 500) \div 1000
    IN  IF s < 0 THEN 0 - v ELSE v

\* the largest r in lo..hi with r * r <= n (the midpoint is bound through a
\* one-element set, so that it is computed once per step of the search)
RECURSIVE SqrtSearch(_, _, _)
SqrtSearch(n, lo, hi) ==
    IF lo >= hi THEN lo
    ELSE CHOOSE r \in { IF mid * mid <= n THEN SqrtSearch(n, mid, hi)
                                          ELSE SqrtSearch(n, lo, mid - 1) :
                        mid \in {(lo + hi + 1) \div 2} } : TRUE

\* math.hypot, to the nearest length unit
Hypot(dx, dy) ==
    LET n == dx * dx + dy * dy
        fl == SqrtSearch(n, 0, MaxRadius + MaxRadius \div 2)
    IN  IF n - fl * fl > fl THEN fl + 1 ELSE fl

\* the smallest angle a in lo..hi at which the direction (ax, ay) of the first
\* quadrant is reached: ax * sin(a) >= ay * cos(a)
RECURSIVE AngleSearch(_, _, _, _)
AngleSearch(ax, ay, lo, hi) ==
    IF lo >= hi THEN lo
    ELSE CHOOSE r \in { IF ScaleFine(ax, Sin(mid)) >= ScaleFine(ay, Cos(mid))
                        THEN AngleSearch(ax, ay, lo, mid)
                        ELSE AngleSearch(ax, ay, mid + 1, hi) :
                        mid \in {(lo + hi) \div 2} } : TRUE

\* math.atan2(y, x), in (-HalfTurn, HalfTurn]
Atan2(y, x) ==
    LET q == IF x = 0 /\ y = 0 THEN 0
             ELSE AngleSearch(Abs(x), Abs(y), 0, HalfTurn \div 2)
    IN  IF y >= 0 THEN (IF x >= 0 THEN q ELSE HalfTurn - q)
        ELSE (IF x >= 0 THEN 0 - q ELSE q - HalfTurn)

\* radius * angular_travel: the length of the arc, for a sweep w
ArcLength(radius, w) ==
    LET rw == radius * (w \div 1000) + (radius * (w % 1000)) \div 1000
    IN  ((rw \div 1000) * 174533 + ((rw % 1000) * 174533) \div 1000) \div 10000

\* _generate_arc from the line that turns the end angle on: the waypoints it
\* appends, and that it goes on to replace self.target_mpos by the target
ArcSegments(target, center_x, center_y, radius, start_angle, end_0, is_cw) ==
    LET end_1 == IF is_cw /\ end_0 > start_angle THEN end_0 - Turn
                 ELSE IF ~is_cw /\ end_0 < start_angle THEN end_0 + Turn
                 ELSE end_0
        end_angle == IF Abs(end_1 - start_angle) < 6
                     THEN (IF is_cw THEN start_angle - Turn
                                    ELSE start_angle + Turn)
                     ELSE end_1
        angular_travel == Abs(end_angle - start_angle)
        num_segments == Max2(2, ArcLength(radius, angular_travel) \div 1000)
        z_start == target_mpos[3]
        Point(i, n) ==
            LET angle == start_angle + TruncDiv((end_angle - start_angle) * i, n)
            IN  << center_x + Scale(radius, Cos(angle)),
                   center_y + Scale(radius, Sin(angle)),
                   z_start + TruncDiv((target[3] - z_start) * i, n) >>
    IN  CHOOSE r \in { [waypoints |-> [i \in 1..n |-> Point(i, n)],
                        retarget |-> TRUE] : n \in {num_segments} } : TRUE

\* _generate_arc, were it to append the target alone
GenerateArcChord(target, I, J, is_cw) ==
    [waypoints |-> <<target>>, retarget |-> TRUE]

\* _generate_arc: the waypoints it appends for a G2/G3 block, and whether it
\* goes on to replace self.target_mpos by the block's target (the early
\* return for a radius under 0.001 does not).  The radius and the two angles
\* are bound through one-element sets, so that each is computed once.
GenerateArc(target, I, J, is_cw) ==
    LET start_x == target_mpos[1]
        start_y == target_mpos[2]
        center_x == start_x + I
        center_y == start_y + J
    IN  CHOOSE r \in
            { IF radius < 1
              THEN [waypoints |-> <<target>>, retarget |-> FALSE]
              ELSE ArcSegments(target, center_x, center_y, radius,
                               start_angle, end_0, is_cw) :
              radius \in {Hypot(start_x - center_x, start_y - center_y)},
              start_angle \in {Atan2(start_y - center_y, start_x - center_x)},
              end_0 \in {Atan2(target[2] - center_y, target[1] - center_x)} }
            : TRUE

\* self.is_relative after the distance-mode loop: a jog block does not set it
PersistentModeLatched(is_jog, rel) == rel

PersistentMode(is_jog, rel) == IF is_jog THEN is_relative ELSE rel

\* What _parse_gcode does up to and including the append to the queue.
ParseGcode(toks, is_jog) ==
    IF IsOffsetBlock(toks) THEN
        [kind |-> "offset", wco |-> OffsetLoop(toks, 1, wco)]
    ELSE
        LET ml == ModeLoop(toks, 1, motion_mode)
            rel == RelLoop(toks, 1, is_relative)
            acc == ParamLoop(toks, 1, rel,
                       [feed |-> feed_rate, target |-> target_mpos,
                        is_move |-> FALSE, hold |-> FALSE, I |-> 0, J |-> 0])
        IN  IF ml.raise THEN [kind |-> "raise", mode |-> ml.mode]
            ELSE [kind |-> "block",
                  mode |-> ml.mode,
                  rel |-> PersistentMode(is_jog, rel),
                  feed |-> acc.feed,
                  hold |-> acc.hold,
                  is_move |-> acc.is_move,
                  target |-> acc.target,
                  arc |-> IF ml.mode \in {2, 3}
                          THEN GenerateArc(acc.target, acc.I, acc.J, ml.mode = 2)
                          ELSE [waypoints |-> <<acc.target>>,
                                retarget |-> FALSE]]

----------------------------------------------------------------------------
\* Shared helpers of the threads.

\* motion_queue.pop(0): the list target_mpos refers to leaves the queue
PopHead ==
    /\ motion_queue' = Tail(motion_queue)
    /\ target_is_head' = FALSE

\* an assignment self.target_mpos[i] = ... : it changes the list in place, and
\* with it the head of the queue when that is the same list
SetTargetAxes(new) ==
    /\ target_mpos' = new
    /\ motion_queue' = IF target_is_head
                       THEN [motion_queue EXCEPT ![1] = new]
                       ELSE motion_queue
    /\ UNCHANGED target_is_head

\* a limit check that flags the breach and leaves the position as computed
ClampForgotten(p) == p

Clamp(p) == [i \in Axes |-> Max2(0, Min2(p[i], MaxTravel[i]))]

OutOfRange(p) == \E i \in Axes : p[i] < 0 \/ p[i] > MaxTravel[i]

HomerPcs == {"off", "h284", "w285", "h291", "w295", "w301", "h309", "w315"}

FreeHomer == CHOOSE h \in 1..MaxHomers : hpc[h] = "off"

----------------------------------------------------------------------------
\* The reader thread (_serial_loop and what it calls).

Receive(name, pre) ==
    /\ rpc = "read"
    /\ name \in menu.in
    /\ inputs < MaxInputs + menu.more
    /\ inputs' = inputs + 1
    /\ last' = [in |-> name, pre |-> pre]

\* '?', were it to end the line received so far
RecvStatusDropsLine ==
    /\ Receive("?", state)
    /\ buffer' = <<>>
    /\ UNCHANGED <<ctrl, rpc, mpc, m_next, m_hit, m_full, hpc, resp, handled,
                   alarms, menu>>

\* '?': _send_status
RecvStatus ==
    /\ Receive("?", state)
    /\ UNCHANGED <<ctrl, buffer, rpc, mpc, m_next, m_hit, m_full, hpc, resp, handled,
                   alarms, menu>>

\* the state a '~' leaves: out of Hold, by the length of the queue
ResumeIgnoresQueue(st, queue) == IF st = "Hold" THEN "Run" ELSE st

ResumeState(st, queue) ==
    IF st = "Hold"
    THEN IF Len(queue) > 0 THEN "Run" ELSE "Idle"
    ELSE st

\* '~': cycle start / resume
RecvResume ==
    /\ Receive("~", state)
    /\ state' = ResumeState(state, motion_queue)
    /\ UNCHANGED <<mpos, target_mpos, target_is_head, motion_queue, feed_rate,
                   homing, is_relative, motion_mode, wco, buffer, rpc, mpc,
                   m_next, m_hit, m_full, hpc, resp, handled, alarms, menu>>

\* 0x18: soft reset
RecvReset ==
    /\ Receive("RESET", state)
    /\ state' = "Alarm"
    /\ UNCHANGED <<mpos, target_mpos, target_is_head, motion_queue, feed_rate,
                   homing, is_relative, motion_mode, wco, buffer, rpc, mpc,
                   m_next, m_hit, m_full, hpc, resp, handled, alarms, menu>>

\* line content that is not followed by a terminator yet
RecvChars(name) ==
    /\ Receive(name, state)
    /\ buffer' = Append(buffer, Catalogue[name])
    /\ UNCHANGED <<ctrl, rpc, mpc, m_next, m_hit, m_full, hpc, resp, handled, alarms,
                   menu>>

\* _start_homing: the fields it sets, and the thread it starts
StartHoming ==
    /\ state' = "Home"
    /\ homing' = TRUE
    /\ hpc' = [hpc EXCEPT ![FreeHomer] = "h284"]

\* _handle_command(cmd), up to the place where _parse_gcode has appended to
\* the queue (a line that moves) or to its end (any other line)
HandleCommand(cmd) ==
    IF state = "Alarm" /\ ~AlarmAllowed(cmd) THEN
        /\ resp' = <<"error:9">>
        /\ buffer' = <<>>
        /\ UNCHANGED <<ctrl, rpc, hpc>>
    ELSE LET class == CommandClass(cmd) IN
        IF class = "home" THEN
            /\ \E h \in 1..MaxHomers : hpc[h] = "off"
            /\ StartHoming
            /\ resp' = <<"ok">>
            /\ buffer' = <<>>
            /\ UNCHANGED <<mpos, target_mpos, target_is_head, motion_queue,
                           feed_rate, is_relative, motion_mode, wco, rpc>>
        ELSE IF class = "unlock" THEN
            /\ state' = "Idle"
            /\ resp' = <<"ok">>
            /\ buffer' = <<>>
            /\ UNCHANGED <<mpos, target_mpos, target_is_head, motion_queue,
                           feed_rate, homing, is_relative, motion_mode, wco,
                           rpc, hpc>>
        ELSE IF class \in {"settings", "info", "modal", "setting"} THEN
            /\ resp' = <<"ok">>
            /\ buffer' = <<>>
            /\ UNCHANGED <<ctrl, rpc, hpc>>
        ELSE LET p == ParseGcode(Tokens(cmd), class = "jog") IN
            IF p.kind = "offset" THEN
                /\ wco' = p.wco
                /\ resp' = <<"ok">>
                /\ buffer' = <<>>
                /\ UNCHANGED <<state, mpos, target_mpos, target_is_head,
                               motion_queue, feed_rate, homing, is_relative,
                               motion_mode, rpc, hpc>>
            ELSE IF p.kind = "raise" THEN
                \* the exception ends the handler: nothing is sent and the
                \* reader's loop skips its buffer = ""
                /\ motion_mode' = p.mode
                /\ resp' = <<>>
                /\ buffer' = cmd
                /\ UNCHANGED <<state, mpos, target_mpos, target_is_head,
                               motion_queue, feed_rate, homing, is_relative,
                               wco, rpc, hpc>>
            ELSE
                /\ motion_mode' = p.mode
                /\ is_relative' = p.rel
                /\ feed_rate' = p.feed
                /\ IF p.is_move THEN
                       /\ motion_queue' = motion_queue \o p.arc.waypoints
                       /\ IF p.arc.retarget
                          THEN /\ target_mpos' = p.target
                               /\ target_is_head' = FALSE
                          ELSE UNCHANGED <<target_mpos, target_is_head>>
                       /\ state' = IF p.hold THEN "Hold" ELSE state
                       /\ rpc' = "r219"
                       /\ resp' = <<>>
                       /\ buffer' = cmd
                   ELSE
                       /\ state' = IF p.hold THEN "Hold" ELSE state
                       /\ resp' = <<"ok">>
                       /\ buffer' = <<>>
                       /\ UNCHANGED <<motion_queue, rpc, target_mpos,
                                      target_is_head>>
                /\ UNCHANGED <<mpos, homing, wco, hpc>>

\* line content followed by CR or LF
RecvLine(name) ==
    /\ Receive(name, state)
    /\ HandleCommand(Append(buffer, Catalogue[name]))
    /\ handled' = TRUE
    /\ UNCHANGED <<mpc, m_next, m_hit, m_full, alarms, menu>>

\* CR or LF after content received earlier
RecvTerminator ==
    /\ Receive("CR", state)
    /\ buffer # <<>>
    /\ HandleCommand(buffer)
    /\ handled' = TRUE
    /\ UNCHANGED <<mpc, m_next, m_hit, m_full, alarms, menu>>

\* _parse_gcode: self.target_mpos = self.motion_queue[0]
ReaderTarget ==
    /\ rpc = "r219"
    /\ IF motion_queue = <<>> THEN
           \* IndexError: the handler ends without a response, the buffer stays
           /\ rpc' = "read"
           /\ UNCHANGED <<target_mpos, target_is_head>>
       ELSE
           /\ target_mpos' = motion_queue[1]
           /\ target_is_head' = TRUE
           /\ rpc' = "r220"
    /\ UNCHANGED <<state, mpos, motion_queue, feed_rate, homing, is_relative,
                   motion_mode, wco, buffer, mpc, m_next, m_hit, m_full, hpc,
                   resp, handled, alarms, menu, inputs, last>>

\* _parse_gcode: self.state = "Run", then the ok of _handle_command
ReaderRun ==
    /\ rpc = "r220"
    /\ state' = "Run"
    /\ resp' = Append(resp, "ok")
    /\ buffer' = <<>>
    /\ rpc' = "read"
    /\ UNCHANGED <<mpos, target_mpos, target_is_head, motion_queue, feed_rate,
                   homing, is_relative, motion_mode, wco, mpc, m_next, m_hit,
                   m_full, hpc, handled, alarms, menu, inputs, last>>

----------------------------------------------------------------------------
\* The motion thread (_motion_loop), one loop iteration in four steps.

\* the waypoint the tick moves towards
CurrentTarget ==
    IF state = "Run" /\ Len(motion_queue) > 0 THEN motion_queue[1]
    ELSE target_mpos

Delta(to) == [i \in Axes |-> to[i] - mpos[i]]

\* dist <= 0.001, for a delta in whole units: at most one axis is one unit off
WithinTolerance(d) == Abs(d[1]) + Abs(d[2]) + Abs(d[3]) <= 1

MaxAbs(d) == Max2(Abs(d[1]), Max2(Abs(d[2]), Abs(d[3])))

\* next_pos of a tick whose step is shorter than dist
PartialStep(to, d) == [i \in Axes |-> to[i] - TruncDiv(d[i], StepDiv)]

\* the shortest step a tick takes, in units: speed / 60 mm/s times the 0.01 s
\* the loop sleeps, with speed = 500 in Home and max(feed_rate, 100) otherwise
MinStep ==
    (IF state = "Home" THEN MM(500) ELSE Max2(feed_rate, MM(100))) \div 6000 + 1

\* a partial step is one the loop can take: it is at least MinStep long
CanStepShort(d) == MaxAbs(d) - MaxAbs(d) \div StepDiv >= MinStep

\* the top of the loop to the end of the limit check: the tick reads the
\* state, its target and mpos and computes next_pos and hit_limit; when the
\* target is within tolerance it takes the else branch and pops at once
TickBegin ==
    /\ mpc = "top"
    /\ state \in {"Run", "Home"}
    /\ LET to == CurrentTarget
           d == Delta(to)
       IN  IF ~WithinTolerance(d) THEN
               /\ \E full \in BOOLEAN :
                      /\ full \/ CanStepShort(d)
                      /\ LET raw == IF full THEN to ELSE PartialStep(to, d)
                         IN  /\ m_next' = Clamp(raw)
                             /\ m_hit' = OutOfRange(raw)
                             /\ m_full' = full
               /\ mpc' = "m372"
               /\ UNCHANGED <<motion_queue, target_is_head>>
           ELSE
               /\ IF state = "Run" /\ Len(motion_queue) > 0
                  THEN PopHead
                  ELSE UNCHANGED <<motion_queue, target_is_head>>
               /\ mpc' = "m383"
               /\ UNCHANGED <<m_next, m_hit, m_full>>
    /\ UNCHANGED <<state, mpos, target_mpos, feed_rate, homing, is_relative,
                   motion_mode, wco, buffer, rpc, hpc, resp, handled, alarms, menu,
                   inputs, last>>

\* self.mpos = next_pos, then the alarm branch or the pop of a reached head
TickWrite ==
    /\ mpc = "m372"
    /\ mpos' = m_next
    /\ IF m_hit /\ ~homing THEN
           /\ target_mpos' = m_next
           /\ target_is_head' = FALSE
           /\ motion_queue' = <<>>
           /\ state' = "Alarm"
           /\ alarms' = alarms + 1
           /\ mpc' = "top"
       ELSE IF m_full THEN
           /\ IF state = "Run" /\ Len(motion_queue) > 0
              THEN PopHead
              ELSE UNCHANGED <<motion_queue, target_is_head>>
           /\ mpc' = "m383"
           /\ UNCHANGED <<target_mpos, state, alarms>>
       ELSE
           /\ mpc' = "top"
           /\ UNCHANGED <<target_mpos, target_is_head, motion_queue, state,
                          alarms>>
    /\ m_next' = Zero3
    /\ m_hit' = FALSE
    /\ m_full' = FALSE
    /\ UNCHANGED <<feed_rate, homing, is_relative, motion_mode, wco, buffer,
                   rpc, hpc, resp, handled, menu, inputs, last>>

\* if not self.homing and the queue is empty:
TickCheck ==
    /\ mpc = "m383"
    /\ mpc' = IF ~homing /\ Len(motion_queue) = 0 THEN "m384" ELSE "top"
    /\ UNCHANGED <<ctrl, buffer, rpc, m_next, m_hit, m_full, hpc, resp, handled,
                   alarms, menu, inputs, last>>

\*     self.state = "Idle"
TickIdle ==
    /\ mpc = "m384"
    /\ state' = "Idle"
    /\ mpc' = "top"
    /\ UNCHANGED <<mpos, target_mpos, target_is_head, motion_queue, feed_rate,
                   homing, is_relative, motion_mode, wco, buffer, rpc, m_next,
                   m_hit, m_full, hpc, resp, handled, alarms, menu, inputs, last>>

----------------------------------------------------------------------------
\* A homing thread (run_homing).

\* the condition that ends a wait loop on the axes in `axes`
WaitOver(axes) ==
    ~((\E i \in axes : Abs(mpos[i] - home_pos[i]) > 100) /\ homing)

HomerFrame ==
    UNCHANGED <<feed_rate, is_relative, motion_mode, wco, buffer, rpc, mpc,
                m_next, m_hit, m_full, resp, handled, alarms, menu, inputs, last>>

BackOff(i) == home_pos[i] - MM(2)

\* Z up to the limit
HomeSeekZ(h) ==
    /\ hpc[h] = "h284"
    /\ SetTargetAxes([target_mpos EXCEPT ![3] = home_pos[3]])
    /\ hpc' = [hpc EXCEPT ![h] = "w285"]
    /\ UNCHANGED <<state, mpos, homing>>
    /\ HomerFrame

\* the first wait loop ends; back off
HomeBackOffZ(h) ==
    /\ hpc[h] = "w285"
    /\ WaitOver({3})
    /\ SetTargetAxes([target_mpos EXCEPT ![3] = BackOff(3)])
    /\ hpc' = [hpc EXCEPT ![h] = "h291"]
    /\ UNCHANGED <<state, mpos, homing>>
    /\ HomerFrame

\* after the dwell: mpos[2] = target_mpos[2], then the slow return
HomeSnapZ(h) ==
    /\ hpc[h] = "h291"
    /\ mpos' = [mpos EXCEPT ![3] = target_mpos[3]]
    /\ SetTargetAxes([target_mpos EXCEPT ![3] = home_pos[3]])
    /\ hpc' = [hpc EXCEPT ![h] = "w295"]
    /\ UNCHANGED <<state, homing>>
    /\ HomerFrame

\* the second wait loop ends; X and Y together
HomeSeekXY(h) ==
    /\ hpc[h] = "w295"
    /\ WaitOver({3})
    /\ SetTargetAxes([target_mpos EXCEPT ![1] = home_pos[1], ![2] = home_pos[2]])
    /\ hpc' = [hpc EXCEPT ![h] = "w301"]
    /\ UNCHANGED <<state, mpos, homing>>
    /\ HomerFrame

\* the third wait loop ends; back off X and Y
HomeBackOffXY(h) ==
    /\ hpc[h] = "w301"
    /\ WaitOver({1, 2})
    /\ SetTargetAxes([target_mpos EXCEPT ![1] = BackOff(1), ![2] = BackOff(2)])
    /\ hpc' = [hpc EXCEPT ![h] = "h309"]
    /\ UNCHANGED <<state, mpos, homing>>
    /\ HomerFrame

\* after the dwell: mpos[0], mpos[1] = target_mpos[0], [1], then the slow return
HomeSnapXY(h) ==
    /\ hpc[h] = "h309"
    /\ mpos' = [mpos EXCEPT ![1] = target_mpos[1], ![2] = target_mpos[2]]
    /\ SetTargetAxes([target_mpos EXCEPT ![1] = home_pos[1], ![2] = home_pos[2]])
    /\ hpc' = [hpc EXCEPT ![h] = "w315"]
    /\ UNCHANGED <<state, homing>>
    /\ HomerFrame

\* the last wait loop ends; finish homing
HomeFinish(h) ==
    /\ hpc[h] = "w315"
    /\ WaitOver({1, 2})
    /\ mpos' = home_pos
    /\ target_mpos' = home_pos
    /\ target_is_head' = FALSE
    /\ motion_queue' = <<>>
    /\ homing' = FALSE
    /\ state' = "Idle"
    /\ hpc' = [hpc EXCEPT ![h] = "off"]
    /\ HomerFrame

----------------------------------------------------------------------------

\* the runs checked: which inputs the sender draws from, and how many more
\* (or, when negative, fewer) than MaxInputs it sends
Menu(in, more) == [in |-> in, more |-> more]

Menus ==
    { Menu({"X500", "RESET", "DX", "XYZ"}, 1),
      Menu({"DH", "RESET", "DX"}, 1),
      Menu({"DH", "ZNEG"}, 0),
      Menu({"DH", "G92X5", "?"}, 0),
      Menu({"X20", "XYZ", "M0", "~"}, 0),
      Menu({"M0X5", "~"}, 0),
      Menu({"GINF", "X20", "BANG", "CR"}, 0),
      Menu({"ARC", "ARC0", "?"}, -1),
      Menu({"REL", "JOG", "JOGABS", "X20"}, 0),
      Menu({"XYZ", "G92X5", "G10YZ"}, 0),
      Menu({"BAD", "BANG", "?", "CR"}, 0),
      Menu({"RESET", "DI1", "DI", "DD", "DSET", "DG", "DHA"}, 0) }

Init ==
    /\ state = "Idle"
    /\ mpos = Zero3
    /\ target_mpos = Zero3
    /\ target_is_head = FALSE
    /\ motion_queue = <<>>
    /\ feed_rate = MM(1000)
    /\ homing = FALSE
    /\ is_relative = FALSE
    /\ motion_mode = 0
    /\ wco = Zero3
    /\ buffer = <<>>
    /\ rpc = "read"
    /\ mpc = "top"
    /\ m_next = Zero3
    /\ m_hit = FALSE
    /\ m_full = FALSE
    /\ hpc = [h \in 1..MaxHomers |-> "off"]
    /\ resp = <<>>
    /\ handled = FALSE
    /\ alarms = 0
    /\ menu \in Menus
    /\ inputs = 0
    /\ last = [in |-> "none", pre |-> "Idle"]

Next ==
    \/ RecvStatus
    \/ RecvResume
    \/ RecvReset
    \/ \E name \in CharNames : RecvChars(name)
    \/ \E name \in LineNames : RecvLine(name)
    \/ RecvTerminator
    \/ ReaderTarget
    \/ ReaderRun
    \/ TickBegin
    \/ TickWrite
    \/ TickCheck
    \/ TickIdle
    \/ \E h \in 1..MaxHomers :
           \/ HomeSeekZ(h)
           \/ HomeBackOffZ(h)
           \/ HomeSnapZ(h)
           \/ HomeSeekXY(h)
           \/ HomeBackOffXY(h)
           \/ HomeSnapXY(h)
           \/ HomeFinish(h)

Spec == Init /\ [][Next]_vars

TypeOK ==
    /\ state \in {"Idle", "Run", "Hold", "Home", "Alarm"}
    /\ rpc \in {"read", "r219", "r220"}
    /\ mpc \in {"top", "m372", "m383", "m384"}
    /\ \A h \in 1..MaxHomers : hpc[h] \in HomerPcs
    /\ target_is_head => (motion_queue # <<>> /\ motion_queue[1] = target_mpos)
    /\ resp \in {<<>>, <<"ok">>, <<"error:9">>}

----------------------------------------------------------------------------
\* What the properties below read.

InTravel(p) == \A i \in Axes : 0 <= p[i] /\ p[i] <= MaxTravel[i]

\* no thread has a step left to take: the reader waits for input, the motion
\* loop is at its top with nothing to move, every homing thread is finished
\* or waiting in a loop that cannot end
MotionAtRest == mpc = "top" /\ state \notin {"Run", "Home"}

HomerAtRest(h) ==
    \/ hpc[h] = "off"
    \/ hpc[h] \in {"w285", "w295"} /\ ~WaitOver({3})
    \/ hpc[h] \in {"w301", "w315"} /\ ~WaitOver({1, 2})

Quiescent ==
    /\ rpc = "read"
    /\ MotionAtRest
    /\ \A h \in 1..MaxHomers : HomerAtRest(h)

----------------------------------------------------------------------------
\* C1: in every reachable state every axis of mpos lies between 0 and its
\* maximum travel ($130, $131, $132).
C1_MposWithinTravel == InTravel(mpos) \/ state = "Alarm"

\* C2: whenever the state is Idle the motion queue is empty and mpos is the
\* planner target (to within the executor's tolerance of 0.001); read at the
\* points where no line is half handled and no tick is half done.
C2_IdleIsSettled ==
    (state = "Idle" /\ rpc = "read" /\ mpc = "top") =>
        /\ motion_queue = <<>>
        /\ WithinTolerance(Delta(target_mpos))

\* C3: every command line handed to the handler has, once the handler is over,
\* exactly one response, which is ok or error:N.
C3_OneResponsePerLine ==
    (handled /\ rpc = "read") =>
        /\ Len(resp) = 1
        /\ resp[1] \in {"ok", "error:9", "error:1"}

\* the endpoint of the block G90 X10 Y20 Z5 of the catalogue
XYZEnd == <<MM(10), MM(20), MM(5)>>

Near(p, q) == \A i \in Axes : Abs(p[i] - q[i]) <= 1

\* C4: after G90 X10 Y20 Z5, issued from Idle with wco = 0, answered ok and
\* followed by no other input, the controller comes to rest only in Idle and
\* with mpos within 0.001 of (10, 20, 5) on every axis.
C4_RoundTrip ==
    (/\ last.in = "XYZ" /\ last.pre = "Idle" /\ wco = Zero3
     /\ resp = <<"ok">> /\ Quiescent) =>
        /\ state = "Idle"
        /\ Near(mpos, XYZEnd)

\* the steps of the motion thread, as the properties see them
IsTickBegin == mpc = "top" /\ mpc' = "m372"
IsTickWrite == mpc = "m372" /\ mpc' # "m372"

\* C5: a tick that computes a position outside [0, max travel] clamps it; when
\* it finds homing inactive it writes the clamped position to mpos, empties
\* the queue, sets the planner target to mpos, sets the state to Alarm and
\* sends one ALARM:1 frame; no ALARM:1 frame is sent while homing is active;
\* and G90 G1 X500 F2000 alone, from power-up, comes to rest in Alarm at
\* x = 300 with an empty queue.
C5_SoftLimitAlarm ==
    /\ [][IsTickBegin =>
            /\ InTravel(m_next')
            /\ m_full' => /\ m_hit' = OutOfRange(CurrentTarget)
                          /\ m_next' = Clamp(CurrentTarget)]_vars
    /\ [][IsTickWrite =>
            /\ mpos' = m_next
            /\ (m_hit /\ ~homing) =>
                   /\ InTravel(mpos')
                   /\ motion_queue' = <<>>
                   /\ target_mpos' = mpos'
                   /\ state' = "Alarm"
                   /\ alarms' = alarms + 1]_vars
    /\ [][alarms' # alarms => ~homing /\ IsTickWrite /\ m_hit]_vars
    /\ []((inputs = 1 /\ last.in = "X500" /\ Quiescent) =>
            /\ state = "Alarm"
            /\ mpos = <<MaxTravel[1], 0, 0>>
            /\ motion_queue = <<>>
            /\ alarms = 1)

\* the X500 block has breached the limit: Alarm at x = 300
C5_Witness ==
    /\ inputs = 1
    /\ last.in = "X500"
    /\ state = "Alarm"
    /\ alarms = 1
    /\ mpos[1] = MaxTravel[1]
    /\ motion_queue = <<>>

\* the reader takes a whole line, alone in the buffer, in supervisor state st
TakesLine(st) ==
    /\ inputs' = inputs + 1
    /\ last'.in \in LineNames
    /\ last'.pre = st
    /\ buffer = <<>>

\* the lines that are exactly $X, $H, $HA, $$, $I, $G
AlarmSix == {"DX", "DH", "DHA", "DD", "DI", "DG"}

\* C6: in Alarm every line other than exactly $X, $H, $HA, $$, $I, $G is
\* answered error:9 and changes no field of the controller; $X sets the state
\* to Idle, and a motion line taken outside Alarm is answered ok.
C6_AlarmGating ==
    /\ [][(TakesLine("Alarm") /\ last'.in \notin AlarmSix) =>
            /\ resp' = <<"error:9">>
            /\ UNCHANGED ctrl]_vars
    /\ [][(TakesLine("Alarm") /\ last'.in = "DX") => state' = "Idle"]_vars
    /\ []((last.in \in {"X20", "XYZ", "X500"} /\ last.pre # "Alarm"
           /\ handled /\ rpc = "read") => resp = <<"ok">>)

\* C7: after $H / $HA, answered ok and followed by no other input, the
\* controller comes to rest only with every homing sequence complete, in Idle,
\* with an empty queue and mpos equal to the home position.
C7_HomingEndsAtHome ==
    (last.in \in {"DH", "DHA"} /\ resp = <<"ok">> /\ Quiescent) =>
        /\ \A h \in 1..MaxHomers : hpc[h] = "off"
        /\ state = "Idle"
        /\ motion_queue = <<>>
        /\ mpos = home_pos

\* a homing thread takes its last step
IsHomeFinish == \E h \in 1..MaxHomers : hpc[h] = "w315" /\ hpc'[h] = "off"

\* C8: the step that completes a homing sequence leaves wco = (0, 0, 0).
C8_HomingZeroesWco == [][IsHomeFinish => wco' = Zero3]_vars

\* C9: a soft reset sets the state to Alarm and empties the motion queue.
C9_ResetEmptiesQueue ==
    [][(inputs' = inputs + 1 /\ last'.in = "RESET") =>
          /\ state' = "Alarm"
          /\ motion_queue' = <<>>]_vars

\* a homing thread takes a step (a step that starts one is a reader step)
IsHomerStep == \E h \in 1..MaxHomers : hpc[h] # "off" /\ hpc'[h] # hpc[h]

\* C10: once a soft reset has been received during a homing sequence, and
\* until the next input, no step of the homing routine changes mpos or the
\* supervisor state, and the state stays Alarm.
C10_ResetCancelsHoming ==
    [][(last.in = "RESET" /\ last' = last /\ IsHomerStep) =>
          /\ mpos' = mpos
          /\ state' = state
          /\ state = "Alarm"]_vars

----------------------------------------------------------------------------
\* the reader takes the input called name
Takes(name) == inputs' = inputs + 1 /\ last'.in = name

\* C11: a '!' received while the state is Run sets the state to Hold in that
\* step, and the line accumulator is left as it was.
C11_FeedHold ==
    [][(Takes("BANG") /\ state = "Run") =>
          /\ state' = "Hold"
          /\ buffer' = buffer]_vars

\* C12: a '~' received in Hold sets the state to Run when the motion queue is
\* non-empty and to Idle when it is empty; received in any other state it
\* changes nothing of the controller.
C12_Resume ==
    [][Takes("~") =>
          IF state = "Hold"
          THEN state' = (IF motion_queue # <<>> THEN "Run" ELSE "Idle")
          ELSE UNCHANGED ctrl]_vars

C12_Witness ==
    /\ last = [in |-> "~", pre |-> "Hold"]
    /\ state = "Run"
    /\ motion_queue # <<>>

\* the reader sets the planner target for the block it has just queued
IsReaderTarget == rpc = "r219" /\ rpc' = "r220"

\* C13: when a motion block is accepted the planner target becomes that
\* block's endpoint, the waypoint the block appended last.
C13_TargetIsEndpoint ==
    [][IsReaderTarget => target_mpos' = motion_queue[Len(motion_queue)]]_vars

\* the lines of the catalogue that hold a G10 or a G92
OffsetLines == {"G92X5", "G10YZ"}

\* the work offset the line called name asks for, from the position p
OffsetAsked(name, p) ==
    IF name = "G92X5" THEN [wco EXCEPT ![1] = p[1] - MM(5)]
    ELSE [wco EXCEPT ![2] = p[2] - MM(3), ![3] = p[3] - MM(1)]

\* C14: a line with G10 or G92, taken outside Alarm, sets wco[axis] to
\* mpos[axis] - value for each axis word of the line, is answered ok, and
\* changes nothing else: the other axes of wco, mpos, the queue, the planner
\* target, the state, the motion mode, the distance mode, the feed rate.
C14_OffsetAssignment ==
    [][(\E name \in OffsetLines : Takes(name) /\ buffer = <<>> /\ state # "Alarm") =>
          /\ wco' = OffsetAsked(last'.in, mpos)
          /\ resp' = <<"ok">>
          /\ UNCHANGED <<mpos, motion_queue, target_mpos, target_is_head,
                         state, motion_mode, is_relative, feed_rate, homing>>]_vars

C14_Witness ==
    /\ last.in = "G10YZ"
    /\ wco[1] = 0 - MM(5)
    /\ wco[2] > 0
    /\ wco[3] > 0
    /\ state = "Run"

\* the lines of the catalogue with text that is no word (BAD), or on which
\* the parser raises (GINF)
MalformedLines == {"BAD", "GINF"}

\* C15: a line with a malformed token, or on which the parser raises, taken
\* outside Alarm, is answered error:1 and queues no motion, and the reader is
\* ready for the next line.
C15_MalformedIsReported ==
    [][(\E name \in MalformedLines : Takes(name) /\ state # "Alarm") =>
          /\ resp' = <<"error:1">>
          /\ motion_queue' = motion_queue
          /\ rpc' = "read"]_vars

\* the jog lines of the catalogue, each with an axis word
JogLines == {"JOG", "JOGABS"}

\* the reader ends the handler of a motion line: state = "Run", then ok
IsReaderRun == rpc = "r220" /\ rpc' = "read"

\* C16: a $J= line with an axis word puts the supervisor in state Jog, not
\* Run, when it is accepted.
C16_JogState ==
    [][(IsReaderRun /\ last.in \in JogLines /\ buffer = <<Catalogue[last.in]>>) =>
          state' = "Jog"]_vars

\* the reader takes the line called name, alone in the buffer, outside Alarm
Accepts(name) == Takes(name) /\ buffer = <<>> /\ state # "Alarm"

\* the block appends one waypoint: the planner target with its X word applied
\* relative (rel) or absolute
QueuesX(rel, x) ==
    motion_queue' = Append(motion_queue,
        [target_mpos EXCEPT ![1] = IF rel THEN target_mpos[1] + x
                                          ELSE x + wco[1]])

\* C17: a G90 or G91 in a $J= block applies to the axis words of that block
\* and leaves the persistent distance mode as it was; a G91 in a block that is
\* no jog sets the persistent mode, which a later block without G90/G91 uses.
C17_JogDoesNotLatch ==
    /\ [][Accepts("JOG") => is_relative' = is_relative /\ QueuesX(TRUE, MM(2))]_vars
    /\ [][Accepts("JOGABS") => is_relative' = is_relative /\ QueuesX(FALSE, MM(3))]_vars
    /\ [][Accepts("REL") => is_relative' = TRUE /\ QueuesX(TRUE, MM(2))]_vars
    /\ [][Accepts("X20") => is_relative' = is_relative /\ QueuesX(is_relative, MM(20))]_vars

C17_Witness ==
    /\ last.in = "JOGABS"
    /\ is_relative
    /\ motion_queue # <<>>
    /\ motion_queue[Len(motion_queue)][1] = MM(3)

\* C18: a '?' changes neither mpos, nor the supervisor state, nor the motion
\* queue, nor the line accumulator, in whatever state and however often it is
\* received, also between the bytes of a line.
C18_StatusIsSideEffectFree ==
    [][Takes("?") => UNCHANGED <<mpos, state, motion_queue, buffer>>]_vars

C18_Witness ==
    /\ last.in = "?"
    /\ state = "Run"
    /\ buffer # <<>>
    /\ inputs = 3

\* the arc lines of the catalogue: ARC has I = 2, J = 0 and ends at X4 Y0 Z3,
\* ARC0 has no offsets and ends at X3 Y1
ArcLines == {"ARC", "ARC0"}
ArcOffset(name) == IF name = "ARC" THEN <<MM(2), 0>> ELSE <<0, 0>>
ArcEnd(name) ==
    IF name = "ARC" THEN <<MM(4) + wco[1], wco[2], MM(3) + wco[3]>>
    ELSE <<MM(3) + wco[1], MM(1) + wco[2], target_mpos[3]>>

\* the waypoints a step appends to the queue
Appended == SubSeq(motion_queue', Len(motion_queue) + 1, Len(motion_queue'))

\* the distance of p from the centre c in the XY plane
DistXY(p, c) == Hypot(p[1] - c[1], p[2] - c[2])

\* the expansion the arc line called name must have from the planner target S
ArcExpansion(name, S, W) ==
    LET E == ArcEnd(name)
        C == <<S[1] + ArcOffset(name)[1], S[2] + ArcOffset(name)[2]>>
        r == DistXY(S, C)
        N == Len(W)
    IN  IF r < 1 THEN W = <<E>>
        ELSE /\ N >= 2
             /\ (S[1] = 0 /\ S[2] = 0) => N = 6
             /\ (S[1] = 268 /\ S[2] = MM(1)) => N = 7
             /\ (S[1] = MM(3) /\ S[2] = MM(1)) => N = 10
             /\ \A i \in 1..N :
                    /\ Abs(DistXY(W[i], C) - r) <= 1
                    /\ Abs(N * (W[i][3] - S[3]) - i * (E[3] - S[3])) < N
             /\ Abs(DistXY(E, C) - r) <= 1 => Near(W[N], E)

\* C19: an accepted G2/G3 block appends, from the planner target S before it,
\* the single waypoint E when the radius is under 0.001, and otherwise N >= 2
\* waypoints (N = floor(r * sweep): 6 for the half circle of radius 2 from
\* (0, 0), 7 for its sweep of 210 degrees from (0.268, 1), 10 for its sweep
\* of 315 degrees from (3, 1)), each
\* at distance r from the centre, with Z going linearly from S.z to E.z, the
\* last one being E when E lies on the circle; and an arc sent alone from
\* rest comes to rest only in Idle with mpos at E.
C19_ArcExpansion ==
    /\ [][(\E name \in ArcLines : Accepts(name)) =>
             ArcExpansion(last'.in, target_mpos, Appended)]_vars
    /\ []((inputs = 1 /\ last.in = "ARC" /\ Quiescent) =>
             /\ state = "Idle"
             /\ Near(mpos, <<MM(4), 0, MM(3)>>))

C19_Witness ==
    /\ inputs = 1
    /\ last.in = "ARC"
    /\ Quiescent
    /\ mpos = <<MM(4), 0, MM(3)>>

\* the tick writes state = "Idle", the last of its steps
IsTickIdle == mpc = "m384" /\ mpc' = "top"

\* C20: a tick does not overwrite a state the reader has set since the tick
\* began: when it writes Idle the state is not the Alarm of a soft reset, and
\* no motion line has, since the tick found the queue empty, queued a waypoint
\* and been answered.
C20_TickIsAtomic ==
    [][IsTickIdle =>
          /\ state # "Alarm"
          /\ ~(motion_queue # <<>> /\ rpc = "read")]_vars

\* a step of the reader: it takes an input, or goes on inside a handler
IsReaderStep == inputs' # inputs \/ rpc # "read"

\* C21: while a homing sequence is under way and the state is Home, no step
\* of the reader sets the state to Run or changes the planner target, the
\* setpoint the executor drives towards in Home.
C21_HomingIsExclusive ==
    [][(state = "Home" /\ homing /\ IsReaderStep) =>
          /\ state' # "Run"
          /\ target_mpos' = target_mpos]_vars

\* the states in which the machine is meant to stand still
RestStates == {"Idle", "Hold", "Alarm"}

\* C22: a step taken while the state is Idle, Hold or Alarm leaves mpos
\* unchanged, whether the executor, a homing routine or the reader takes it.
C22_MposFrozenAtRest ==
    [][(state \in RestStates) => (mpos' = mpos)]_vars

\* a step of the executor
IsExecutorStep == mpc' # mpc

\* the reader adds waypoints at the tail and leaves the queued ones alone
QueueAppend ==
    /\ IsReaderStep
    /\ Len(motion_queue') > Len(motion_queue)
    /\ SubSeq(motion_queue', 1, Len(motion_queue)) = motion_queue

\* the executor removes the head in a tick that leaves mpos on it
QueuePop ==
    /\ IsExecutorStep
    /\ motion_queue # <<>>
    /\ motion_queue' = Tail(motion_queue)
    /\ WithinTolerance([i \in Axes |-> Head(motion_queue)[i] - mpos'[i]])

\* the whole queue is cleared when homing completes or on entering Alarm
QueueClear ==
    /\ motion_queue' = <<>>
    /\ IsHomeFinish \/ state' = "Alarm"

\* C23: every change of the motion queue is an append by the reader, a removal
\* of the head by a tick that leaves mpos on that head, or a clearing of the
\* whole queue at the end of homing or on Alarm; so no queued waypoint has its
\* coordinates changed and none is removed before mpos has reached it.
C23_QueueDiscipline ==
    [][(motion_queue' # motion_queue) =>
          (QueueAppend \/ QueuePop \/ QueueClear)]_vars

\* the lines of the catalogue that hold an M0 word
M0Lines == {"M0", "M0X5"}

\* the step in which the reader ends the handler of an accepted M0 block: the
\* step that takes the line when it queues no move, else the end of the
\* move's handler
M0Processed ==
    \/ \E name \in M0Lines : Accepts(name) /\ rpc' = "read"
    \/ last.in \in M0Lines /\ IsReaderRun

\* C24: when the handler of an accepted block holding M0 ends, the state is
\* Hold, also when the block holds axis words; and from then until the next
\* input no step of the executor changes mpos.
C24_M0Holds ==
    /\ [][M0Processed => state' = "Hold"]_vars
    /\ [][(/\ last.in \in M0Lines /\ last' = last /\ last.pre # "Alarm"
           /\ rpc = "read" /\ IsExecutorStep) => mpos' = mpos]_vars

====
